---- MODULE Spec2Model ----
(***************************************************************************)
(* Verification model of the queue consumption and output dispatch         *)
(* pipeline: OutputDispatcher (app/output_handler.py), the RabbitMQ and    *)
(* SQS listeners (app/queue_handler.py) and the token-bucket RateLimiter   *)
(* (app/utils/rate_limit.py).                                              *)
(*                                                                         *)
(* The three components share no state.  Each has its own specification    *)
(* (SpecDispatcher, SpecConsumer, SpecLimiter); the variables of the other *)
(* two components keep their initial value under it.                       *)
(***************************************************************************)
EXTENDS Integers, Sequences, FiniteSets, TLC

VARIABLES
    \* ---- OutputDispatcher ----
    output_modes,     \* self.output_modes, read once in __init__
    paper_enabled,    \* config_shared.get_paper_trading_enabled() (lru_cached)
    data,             \* the argument of the running send call
    valid,            \* what validate_list_of_dicts(data) returned at line 52
    dpc,              \* position inside send
    mode_idx,         \* index of the for loop over self.output_modes (1-based)
    cur,              \* mode whose handler is executing
    q_attempts,       \* tenacity attempt number of _output_to_queue
    events,           \* history: handler calls, warnings, recorded outcomes
    send_status,      \* "none" | "ok" | "error_logged" (logger.error at line 72)
    q_msg,            \* queue sink: index of the message being published, 0 if none
    q_tries,          \* queue sink: tenacity attempt number of the send of that message
    q_pub_fail,       \* history: failed publishes of the first message during this call
    q_pub_ok,         \* history: per message, its successful publishes during this call
    q_fails,          \* queue sink: attempts of _output_to_queue that raised
    db_state,         \* database sink: "none" | "open" | "committed" | "rolled_back" | "no_connection"
    db_idx,           \* database sink: index of the for loop over the records
    db_done,          \* database sink: indices of the records whose insert was executed
    db_failed_at,     \* database sink: index of the record whose insert raised, 0 if none
    \* ---- queue consumer ----
    queue_type,       \* config.get_queue_type().lower()
    msgs,             \* the messages the broker holds for this consumer, by kind
    next_msg,         \* index in msgs of the next message the broker delivers
    shutdown_event,   \* threading.Event set by _graceful_shutdown
    cpc,              \* position of the listener
    attempt,          \* tenacity attempt number of the listener function
    conns,            \* per attempt: state of the pika connection it opened
    consuming,        \* RabbitMQ: basic_consume issued and not cancelled
    batch,            \* ids of the messages of the batch being processed
    handles,          \* SQS: receipt_handles of the batch (ids)
    del_idx,          \* SQS: index of the delete loop over receipt_handles
    ack_calls,        \* per message: number of basic_ack / delete_message calls
    nack_calls,       \* per message: number of basic_nack calls
    delivered,        \* ids the broker has handed to this consumer
    cb_calls,         \* history: the batches (of ids) passed to the callback
    cb_raised,        \* ids of batches' messages whose callback call raised
    env_fault,        \* history: some broker call has failed
    mid_batch,        \* history: [set, ids, fetched] for a flag set mid-batch
    conn_failures,    \* history: listener runs that failed before consuming began
    requeued,         \* SQS: received ids that are visible in the queue again
    redeliveries,     \* history: per message, the times SQS delivered it again
    sqs_error,        \* history: the error of the latest SQS call that failed
    \* ---- RateLimiter ----
    lim_state,        \* "unbuilt" | "ready" | "rejected" (__init__ raised ValueError)
    max_requests,     \* self._max_requests
    time_window,      \* self._time_window, in clock ticks
    tokens,           \* self._tokens, in units of 1/time_window of a token
    last_check,       \* self._last_check, a clock reading
    now,              \* what time.time() returns, in ticks
    lock,             \* self._lock: 0 when free, else the thread holding it
    tpc,              \* per thread: position inside acquire
    wake_at,          \* per sleeping thread: end of its sleep, in 1/max_requests ticks
    calls_started,    \* number of acquire calls made so far
    pending,          \* history: threads that took the lock and have not consumed yet
    seen,             \* history: per thread, the tokens and last_check it left
    out_of_order,     \* history: a token was consumed out of lock order
    log,              \* history: per call, in lock order, [at, slept]
    ctor_args,        \* history: the arguments __init__ was called with, and when
    \* ---- one message through the queue sink and back ----
    rt_backend,       \* the backend that carries the message
    rt_msg,           \* the message given to _send_to_rabbitmq / _send_to_sqs
    rt_pc,            \* "off" | "start" | "publish_raised" | "published" | "received"
    rt_body,          \* the body at the broker: the JSON text, as a syntax tree
    rt_delivered,     \* the list the listener passes to the callback
    \* ---- retry_request ----
    rr_func_none,     \* func is None
    rr_max,           \* max_retries
    rr_delay,         \* delay_seconds
    rr_pc,            \* "off" | "start" | "loop" | "sleep" | "after_loop" | "returned" | "raised"
    rr_attempt,       \* the loop variable attempt
    rr_last_exception,\* last_exception
    rr_result,        \* what the call returned or raised
    rr_trace          \* history: the calls of func and of time.sleep, in order

\* the state of the queue sink and of the database sink
sinkvars == <<q_msg, q_tries, q_pub_fail, q_pub_ok, q_fails, db_state, db_idx, db_done,
              db_failed_at>>

dvars == <<output_modes, paper_enabled, data, valid, dpc, mode_idx, cur, q_attempts,
           events, send_status, sinkvars>>

cvars == <<queue_type, msgs, next_msg, shutdown_event, cpc, attempt, conns,
           consuming, batch, handles, del_idx, ack_calls, nack_calls, delivered,
           cb_calls, cb_raised, env_fault, mid_batch, conn_failures, requeued,
           redeliveries, sqs_error>>

lvars == <<lim_state, max_requests, time_window, tokens, last_check, now, lock,
           tpc, wake_at, calls_started, pending, seen, out_of_order, log,
           ctor_args>>

rvars == <<rt_backend, rt_msg, rt_pc, rt_body, rt_delivered>>

qvars == <<rr_func_none, rr_max, rr_delay, rr_pc, rr_attempt, rr_last_exception,
           rr_result, rr_trace>>

vars == <<dvars, cvars, lvars, rvars, qvars>>

\* what the actions of one component leave alone
not_dvars == <<cvars, lvars, rvars, qvars>>
not_cvars == <<dvars, lvars, rvars, qvars>>
not_lvars == <<dvars, cvars, rvars, qvars>>
not_rvars == <<dvars, cvars, lvars, qvars>>
not_qvars == <<dvars, cvars, lvars, rvars>>

-----------------------------------------------------------------------------
(* Bounds of the model *)

MaxModes == 2       \* longest configured OUTPUT_MODES list
MaxBatch == 2       \* longest batch handed to send
MaxMsgs == 2        \* messages the broker holds for the consumer
BatchSizeCfg == 2   \* configured BATCH_SIZE (prefetch count, MaxNumberOfMessages)
MaxRedeliveries == 1 \* times SQS delivers one undeleted message again
MaxItems == 1       \* longest list or tuple inside a message
MaxRetriesArg == 3  \* largest max_retries given to retry_request
MaxDelayArg == 1    \* largest delay_seconds given to retry_request
MaxRequestsArg == 2 \* largest max_requests given to RateLimiter
MaxWindowArg == 2   \* largest time_window given to RateLimiter, in ticks
MaxTime == 2        \* last clock tick
MaxCalls == 3       \* acquire calls made on the limiter
NumThreads == 2     \* threads sharing the limiter

-----------------------------------------------------------------------------
(* OutputDispatcher: app/output_handler.py, app/utils/types.py             *)

\* OutputMode enum values
OutputMode == {"queue", "log", "stdout", "rest", "s3", "database"}

\* strings a configuration can hold: the enum values and unrecognised ones
ModeStrings == OutputMode \cup {"invalid"}
PaperModeStrings == OutputMode \cup {"paper"}

\* tenacity stop_after_attempt(3) on _output_to_queue
QueueSinkAttempts == 3

\* tenacity stop_after_attempt(3) on _send_to_rabbitmq and _send_to_sqs
SendAttempts == 3

\* Shapes of one item of a batch: not a dict, a dict without the key "text",
\* a dict with it.
ItemKinds == {"not_dict", "dict_no_text", "dict_text"}

SeqsUpTo(S, n) == UNION {[1..k -> S] : k \in 0..n}

\* A value passed to send: a list of items, or something that is not a list
\* (items is then empty).
NOT_A_LIST == [is_list |-> FALSE, items |-> <<>>]

ListOf(items) == [is_list |-> TRUE, items |-> items]

Batches == {NOT_A_LIST} \cup {ListOf(s) : s \in SeqsUpTo(ItemKinds, MaxBatch)}

IsList(d) == d.is_list

\* validate_dict(item, ["text"]) preceded by isinstance(item, dict)
validate_dict(item) == item = "dict_text"

\* validate_list_of_dicts(data, required_keys=["text"])
validate_list_of_dicts(d) ==
    IF ~IsList(d) THEN FALSE
    ELSE \A i \in 1..Len(d.items) : d.items[i] # "not_dict" /\ validate_dict(d.items[i])

\* _get_dispatch_method: the handler of a mode, "none" for a key not in the table
get_dispatch_method(mode) == IF mode \in OutputMode THEN mode ELSE "none"

\* OutputMode(paper_mode) raises ValueError for a string that is no enum value
OutputModeCtorRaises(s) == s \notin OutputMode

Ev(kind, mode) == <<kind, mode>>

\* handlers invoked so far, in order
Calls == SelectSeq(events, LAMBDA e : e[1] = "call")
CallModes == [i \in 1..Len(Calls) |-> Calls[i][2]]

\* no message of the batch published
NoPublish == [i \in 1..MaxBatch |-> 0]

\* no sink call in progress
SinkIdle ==
    /\ q_msg = 0
    /\ q_tries = 0
    /\ q_pub_fail = 0
    /\ q_pub_ok = NoPublish
    /\ q_fails = 0
    /\ db_state = "none"
    /\ db_idx = 0
    /\ db_done = <<>>
    /\ db_failed_at = 0

DispatcherStart ==
    /\ output_modes \in SeqsUpTo(ModeStrings, MaxModes)
    /\ paper_enabled \in BOOLEAN
    /\ data = ListOf(<<>>)
    /\ valid = TRUE
    /\ dpc = "idle"
    /\ mode_idx = 0
    /\ cur = "none"
    /\ q_attempts = 0
    /\ events = <<>>
    /\ send_status = "none"
    /\ SinkIdle

\* send, lines 51-52: entry and the validation call.  The call at line 52 is an
\* expression statement: validate_list_of_dicts returns a bool and never
\* raises, and the value is discarded, so send goes on whatever it is.
SendCall ==
    /\ dpc = "idle"
    /\ \E d \in Batches :
        /\ data' = d
        /\ valid' = validate_list_of_dicts(d)
    /\ dpc' = IF paper_enabled THEN "paper" ELSE "loop"
    /\ mode_idx' = 1
    /\ UNCHANGED <<output_modes, paper_enabled, cur, q_attempts, events,
                   send_status, sinkvars>>
    /\ UNCHANGED not_dvars

\* dispatch_method(data) is called: the locals of the handler are fresh
HandlerCalled ==
    /\ q_attempts' = 0
    /\ q_msg' = 0
    /\ q_tries' = 0
    /\ q_pub_fail' = 0
    /\ q_pub_ok' = NoPublish
    /\ q_fails' = 0
    /\ db_state' = "none"
    /\ db_idx' = 0
    /\ db_done' = <<>>
    /\ db_failed_at' = 0

\* send, lines 54-62: the paper trading branch
SendPaper ==
    /\ dpc = "paper"
    /\ \E pm \in PaperModeStrings :
        IF OutputModeCtorRaises(pm)
        THEN \* ValueError, caught at line 71
             /\ dpc' = "done"
             /\ send_status' = "error_logged"
             /\ events' = Append(events, Ev("paper", pm))
             /\ UNCHANGED <<cur, q_attempts, sinkvars>>
        ELSE /\ cur' = get_dispatch_method(pm)
             /\ events' = Append(Append(events, Ev("paper", pm)), Ev("call", pm))
             /\ HandlerCalled
             /\ dpc' = "handler"
             /\ UNCHANGED send_status
    /\ UNCHANGED <<output_modes, paper_enabled, data, valid, mode_idx>>
    /\ UNCHANGED not_dvars

\* send, lines 64-69: one iteration of the loop over self.output_modes
SendLoop ==
    /\ dpc = "loop"
    /\ mode_idx <= Len(output_modes)
    /\ LET mode == output_modes[mode_idx] IN
        IF get_dispatch_method(mode) # "none"
        THEN /\ cur' = get_dispatch_method(mode)
             /\ events' = Append(events, Ev("call", mode))
             /\ HandlerCalled
             /\ dpc' = "handler"
             /\ UNCHANGED mode_idx
        ELSE /\ events' = Append(events, Ev("warn", mode))
             /\ mode_idx' = mode_idx + 1
             /\ UNCHANGED <<cur, q_attempts, dpc, sinkvars>>
    /\ UNCHANGED <<output_modes, paper_enabled, data, valid, send_status>>
    /\ UNCHANGED not_dvars

\* send: the loop is exhausted and send returns normally
SendLoopEnd ==
    /\ dpc = "loop"
    /\ mode_idx > Len(output_modes)
    /\ dpc' = "done"
    /\ send_status' = "ok"
    /\ UNCHANGED <<output_modes, paper_enabled, data, valid, mode_idx, cur, q_attempts,
                   events, sinkvars>>
    /\ UNCHANGED not_dvars

\* line 62 left out: after the paper handler send goes on with the mode list
HandlerReturns_NoReturn ==
    /\ cur' = "none"
    /\ dpc' = "loop"
    /\ UNCHANGED <<mode_idx, send_status>>

\* Where send continues when dispatch_method(data) returns: line 62 (return)
\* on the paper branch, the next loop iteration otherwise.
HandlerReturns ==
    /\ cur' = "none"
    /\ IF paper_enabled
       THEN /\ dpc' = "done"
            /\ send_status' = "ok"
            /\ UNCHANGED mode_idx
       ELSE /\ dpc' = "loop"
            /\ mode_idx' = mode_idx + 1
            /\ UNCHANGED send_status

\* without the except clause of line 71 the exception leaves send
HandlerRaises_Uncaught ==
    /\ cur' = "none"
    /\ dpc' = "done"
    /\ send_status' = "raised"
    /\ UNCHANGED mode_idx

\* What send does when dispatch_method(data) raises: nothing inside the try
\* block catches it, so control goes to the except clause of line 71, which
\* logs and ends the call.
HandlerRaises ==
    /\ cur' = "none"
    /\ dpc' = "done"
    /\ send_status' = "error_logged"
    /\ UNCHANGED mode_idx

\* _output_to_log / _output_to_stdout: iterate the data and serialise each
\* item.  Iterating a value that is not a list either works (a str, a dict) or
\* raises TypeError.
OutputToLocal(mode) ==
    /\ dpc = "handler" /\ cur = mode
    /\ \/ /\ events' = Append(events, Ev("ok", mode))
          /\ HandlerReturns
       \/ /\ ~IsList(data)
          /\ UNCHANGED events
          /\ HandlerRaises
    /\ UNCHANGED <<output_modes, paper_enabled, data, valid, q_attempts, sinkvars>>
    /\ UNCHANGED not_dvars

OutputToLog == OutputToLocal("log")

OutputToStdout == OutputToLocal("stdout")

\* one more attempt than the decorator allows
QueueRetryStops_OneMore(n) == n >= QueueSinkAttempts + 1

\* The tenacity wrapper of _output_to_queue after a failed attempt: TRUE when
\* it stops retrying (and raises RetryError).
QueueRetryStops(n) == n >= QueueSinkAttempts

\* The tenacity wrapper of _send_to_rabbitmq / _send_to_sqs after a failed
\* attempt: TRUE when it stops retrying (and raises RetryError).
SendRetryStops(n) == n >= SendAttempts

\* lines 125-126: publish_to_queue has returned; the success is logged and
\* counted, and the handler returns
QueueAttemptSucceeds(evs) ==
    /\ events' = Append(evs, Ev("ok", "queue"))
    /\ q_msg' = 0
    /\ q_tries' = 0
    /\ UNCHANGED q_fails
    /\ HandlerReturns

\* attempt n of _output_to_queue raised: tenacity calls it again, or stops
\* and raises RetryError to send
QueueAttemptFails(evs, n) ==
    /\ events' = Append(evs, Ev("attempt_failed", "queue"))
    /\ q_fails' = q_fails + 1
    /\ q_msg' = 0
    /\ q_tries' = 0
    /\ IF QueueRetryStops(n)
       THEN HandlerRaises
       ELSE UNCHANGED <<cur, dpc, send_status, mode_idx>>

\* an unknown selector is published through RabbitMQ
publish_target_Fallback(qt) == IF qt = "sqs" THEN "sqs" ELSE "rabbitmq"

\* publish_to_queue, lines 62-73: the function that sends each message, "none"
\* when the selector names no backend (the loop then only logs an error for
\* each message)
publish_target(qt) ==
    CASE qt = "rabbitmq" -> "rabbitmq"
      [] qt = "sqs" -> "sqs"
      [] OTHER -> "none"

\* _output_to_queue under @retry, line 124, and publish_to_queue, lines 58-64:
\* one attempt begins.  A payload that is not a list is logged by
\* publish_to_queue, which returns; len(data) at line 125 then returns or
\* raises TypeError.  An empty list publishes nothing, and neither does a
\* selector that names no backend: publish_to_queue returns normally.
OutputToQueue ==
    /\ dpc = "handler" /\ cur = "queue"
    /\ q_msg = 0
    /\ q_attempts' = q_attempts + 1
    /\ LET evs == Append(events, Ev("attempt", "queue")) IN
        IF ~IsList(data)
        THEN \/ QueueAttemptSucceeds(evs)
             \/ QueueAttemptFails(evs, q_attempts + 1)
        ELSE IF Len(data.items) = 0 \/ publish_target(queue_type) = "none"
        THEN QueueAttemptSucceeds(evs)
        ELSE /\ events' = evs
             /\ q_msg' = 1
             /\ q_tries' = 0
             /\ UNCHANGED <<cur, dpc, send_status, mode_idx, q_fails>>
    /\ UNCHANGED <<output_modes, paper_enabled, data, valid, q_pub_fail, q_pub_ok,
                   db_state, db_idx, db_done, db_failed_at>>
    /\ UNCHANGED not_dvars

\* publish_to_queue, lines 64-68, and _send_to_rabbitmq / _send_to_sqs under
\* their own @retry: one attempt to publish the current message.  After the
\* last failed attempt RetryError leaves publish_to_queue and the running
\* attempt of _output_to_queue.
SendToBroker ==
    /\ dpc = "handler" /\ cur = "queue"
    /\ q_msg >= 1
    /\ \/ /\ q_pub_ok' = [q_pub_ok EXCEPT ![q_msg] = @ + 1]
          /\ UNCHANGED q_pub_fail
          /\ IF q_msg < Len(data.items)
             THEN /\ q_msg' = q_msg + 1
                  /\ q_tries' = 0
                  /\ UNCHANGED <<events, cur, dpc, send_status, mode_idx, q_fails>>
             ELSE QueueAttemptSucceeds(events)
       \/ /\ q_pub_fail' = IF q_msg = 1 THEN q_pub_fail + 1 ELSE q_pub_fail
          /\ UNCHANGED q_pub_ok
          /\ IF SendRetryStops(q_tries + 1)
             THEN QueueAttemptFails(events, q_attempts)
             ELSE /\ q_tries' = q_tries + 1
                  /\ UNCHANGED <<events, cur, dpc, send_status, mode_idx, q_fails,
                                 q_msg>>
    /\ UNCHANGED <<output_modes, paper_enabled, data, valid, q_attempts,
                   db_state, db_idx, db_done, db_failed_at>>
    /\ UNCHANGED not_dvars

\* _output_to_rest, _output_to_s3: the set-up statements before the try block
\* (reading the URL, creating the client) raise to the caller; a failure
\* inside the try block is caught and recorded.
OutputToRemote(mode) ==
    /\ dpc = "handler" /\ cur = mode
    /\ \/ /\ events' = Append(events, Ev("ok", mode))
          /\ HandlerReturns
       \/ /\ events' = Append(events, Ev("failed", mode))
          /\ HandlerReturns
       \/ /\ UNCHANGED events
          /\ HandlerRaises
    /\ UNCHANGED <<output_modes, paper_enabled, data, valid, q_attempts, sinkvars>>
    /\ UNCHANGED not_dvars

OutputToRest == OutputToRemote("rest")

OutputToS3 == OutputToRemote("s3")

\* lines 185-187: the except clause of _output_to_database logs the failure
\* and counts it; the handler returns
DbFailureRecorded(state) ==
    /\ db_state' = state
    /\ events' = Append(events, Ev("failed", "database"))
    /\ HandlerReturns

\* _output_to_database, lines 172-175: create_engine (outside the try block:
\* a failure goes to the caller) and engine.begin() (a failure to connect is
\* caught at line 185).  Iterating a value that is not a list fails inside the
\* transaction.
OutputToDatabase ==
    /\ dpc = "handler" /\ cur = "database"
    /\ db_state = "none"
    /\ \/ /\ HandlerRaises
          /\ UNCHANGED <<events, db_state, db_idx>>
       \/ /\ DbFailureRecorded("no_connection")
          /\ UNCHANGED db_idx
       \/ IF IsList(data)
          THEN /\ db_state' = "open"
               /\ db_idx' = 1
               /\ UNCHANGED <<events, cur, dpc, send_status, mode_idx>>
          ELSE /\ DbFailureRecorded("rolled_back")
               /\ UNCHANGED db_idx
    /\ UNCHANGED <<output_modes, paper_enabled, data, valid, q_attempts, q_msg,
                   q_tries, q_pub_fail, q_pub_ok, q_fails, db_done, db_failed_at>>
    /\ UNCHANGED not_dvars

\* lines 176-184: one iteration of the loop over the records, or the end of
\* the with block.  A record that is not a dict is skipped with a warning.  An
\* exception of conn.execute is caught by nothing inside the loop: it leaves
\* the loop and the with block, which rolls the transaction back, and arrives
\* at the except clause of line 185.
DbInsert ==
    /\ dpc = "handler" /\ cur = "database"
    /\ db_state = "open"
    /\ IF db_idx > Len(data.items)
       THEN /\ \/ /\ db_state' = "committed"
                  /\ events' = Append(events, Ev("ok", "database"))
                  /\ HandlerReturns
               \/ DbFailureRecorded("rolled_back")
            /\ UNCHANGED <<db_idx, db_done, db_failed_at>>
       ELSE IF data.items[db_idx] = "not_dict"
       THEN /\ db_idx' = db_idx + 1
            /\ events' = Append(events, Ev("warn_item", "database"))
            /\ UNCHANGED <<db_state, db_done, db_failed_at, cur, dpc, send_status,
                           mode_idx>>
       ELSE \/ /\ db_done' = Append(db_done, db_idx)
               /\ db_idx' = db_idx + 1
               /\ UNCHANGED <<db_state, db_failed_at, events, cur, dpc, send_status,
                              mode_idx>>
            \/ /\ db_failed_at' = db_idx
               /\ DbFailureRecorded("rolled_back")
               /\ UNCHANGED <<db_idx, db_done>>
    /\ UNCHANGED <<output_modes, paper_enabled, data, valid, q_attempts, q_msg,
                   q_tries, q_pub_fail, q_pub_ok, q_fails>>
    /\ UNCHANGED not_dvars

DispatcherNext ==
    \/ SendCall
    \/ SendPaper
    \/ SendLoop
    \/ SendLoopEnd
    \/ OutputToLog
    \/ OutputToStdout
    \/ OutputToQueue
    \/ SendToBroker
    \/ OutputToRest
    \/ OutputToS3
    \/ OutputToDatabase
    \/ DbInsert

\* The dispatcher of a run in which send is never called ("off"), with an empty
\* configuration: its state under the specifications of the other components.
DispatcherParked ==
    /\ output_modes = <<>>
    /\ paper_enabled = FALSE
    /\ data = ListOf(<<>>)
    /\ valid = TRUE
    /\ dpc = "off"
    /\ mode_idx = 0
    /\ cur = "none"
    /\ q_attempts = 0
    /\ events = <<>>
    /\ send_status = "none"
    /\ SinkIdle

-----------------------------------------------------------------------------
(* Queue consumer: app/queue_handler.py                                    *)

\* tenacity stop_after_attempt(5) on _start_rabbitmq_listener and
\* _start_sqs_listener
ListenerAttempts == 5

QueueTypes == {"rabbitmq", "sqs", "kafka"}

\* A message at the broker: its body parses and the callback accepts it, its
\* body is not JSON, or its body parses and the callback raises on it.
MsgKinds == {"ok", "malformed", "cb_raises"}

MsgIds == 1..Len(msgs)

\* json.loads(body) / json.loads(msg["Body"]) returns (does not raise)
JsonLoads(kind) == kind # "malformed"

\* callback(payloads) raises: the processing function fails on one of them
CallbackRaises(ids) == \E i \in ids : msgs[i] = "cb_raises"

SeqToSet(q) == {q[i] : i \in 1..Len(q)}

Done == {"returned", "raised"}

\* The tenacity wrapper after the listener function raised: TRUE when it stops
\* retrying (and raises RetryError out of consume_messages).
ListenerRetryStops(n) == n >= ListenerAttempts

\* The listener function raised: tenacity calls it again from its first line,
\* or gives up.  The locals of the failed call (the batch, the handles) are gone.
ListenerRaised(start) ==
    /\ IF ListenerRetryStops(attempt)
       THEN cpc' = "raised" /\ UNCHANGED attempt
       ELSE cpc' = start /\ attempt' = attempt + 1
    /\ batch' = {}
    /\ handles' = <<>>
    /\ del_idx' = 0
    /\ consuming' = FALSE

\* The connection state an attempt leaves behind when control leaves the try
\* block of _start_rabbitmq_listener (lines 128-135): the finally clause closes
\* it, on the normal and on the exceptional path alike.
RmqAfterTry_NoFinally(raised) == IF raised THEN "consuming" ELSE "closed"

RmqAfterTry(raised) == "closed"

\* Record a fetch (basic_consume, process_data_events, receive_message) issued
\* after the flag was set in the middle of a batch.
NoteFetch ==
    IF mid_batch.set THEN [mid_batch EXCEPT !.fetched = TRUE] ELSE mid_batch

ConsumerStart ==
    /\ queue_type \in QueueTypes
    /\ msgs \in SeqsUpTo(MsgKinds, MaxMsgs)
    /\ next_msg = 1
    /\ shutdown_event = FALSE
    /\ cpc = "start"
    /\ attempt = 1
    /\ conns = [a \in 1..ListenerAttempts |-> "none"]
    /\ consuming = FALSE
    /\ batch = {}
    /\ handles = <<>>
    /\ del_idx = 0
    /\ ack_calls = [i \in 1..MaxMsgs |-> 0]
    /\ nack_calls = [i \in 1..MaxMsgs |-> 0]
    /\ delivered = {}
    /\ cb_calls = <<>>
    /\ cb_raised = {}
    /\ env_fault = FALSE
    /\ mid_batch = [set |-> FALSE, ids |-> {}, fetched |-> FALSE]
    /\ conn_failures = 0
    /\ requeued = {}
    /\ redeliveries = [i \in 1..MaxMsgs |-> 0]
    /\ sqs_error = "none"

\* consume_messages, lines 57-66: register the handlers, pick the listener
ConsumeMessages ==
    /\ cpc = "start"
    /\ cpc' = CASE queue_type = "rabbitmq" -> "rmq_connect"
                [] queue_type = "sqs" -> "sqs_client"
                [] OTHER -> "raised"
    /\ UNCHANGED <<queue_type, msgs, next_msg, shutdown_event, attempt, conns,
                   consuming, batch, handles, del_idx, ack_calls, nack_calls,
                   delivered, cb_calls, cb_raised, env_fault, mid_batch>>
    /\ UNCHANGED <<conn_failures, requeued, redeliveries, sqs_error, not_cvars>>

\* _graceful_shutdown, lines 77-78, run by SIGINT or SIGTERM between any two
\* steps of the listener
GracefulShutdown ==
    /\ cpc \notin Done \cup {"start", "off"}
    /\ ~shutdown_event
    /\ shutdown_event' = TRUE
    /\ mid_batch' = IF cpc \in {"rmq_callback", "sqs_callback", "sqs_delete"}
                    THEN [set |-> TRUE, ids |-> batch, fetched |-> FALSE]
                    ELSE mid_batch
    /\ UNCHANGED <<queue_type, msgs, next_msg, cpc, attempt, conns, consuming,
                   batch, handles, del_idx, ack_calls, nack_calls, delivered,
                   cb_calls, cb_raised, env_fault>>
    /\ UNCHANGED <<conn_failures, requeued, redeliveries, sqs_error, not_cvars>>

\* _start_rabbitmq_listener, lines 89-98: pika.BlockingConnection(...)
RmqConnect ==
    /\ cpc = "rmq_connect"
    /\ \/ /\ conns' = [conns EXCEPT ![attempt] = "open"]
          /\ cpc' = "rmq_setup"
          /\ UNCHANGED <<attempt, batch, handles, del_idx, consuming, env_fault,
                          conn_failures>>
       \/ /\ ListenerRaised("rmq_connect")
          /\ env_fault' = TRUE
          /\ conn_failures' = conn_failures + 1
          /\ UNCHANGED conns
    /\ UNCHANGED <<queue_type, msgs, next_msg, shutdown_event, ack_calls,
                   nack_calls, delivered, cb_calls, cb_raised, mid_batch>>
    /\ UNCHANGED <<requeued, redeliveries, sqs_error, not_cvars>>

\* lines 99-101: connection.channel(), queue_declare; a failure here is
\* outside the try block, so the connection stays open
RmqSetup ==
    /\ cpc = "rmq_setup"
    /\ \/ /\ cpc' = "rmq_try"
          /\ UNCHANGED <<attempt, batch, handles, del_idx, consuming, env_fault,
                          conn_failures>>
       \/ /\ ListenerRaised("rmq_connect")
          /\ env_fault' = TRUE
          /\ conn_failures' = conn_failures + 1
    /\ UNCHANGED <<queue_type, msgs, next_msg, shutdown_event, conns, ack_calls,
                   nack_calls, delivered, cb_calls, cb_raised, mid_batch>>
    /\ UNCHANGED <<requeued, redeliveries, sqs_error, not_cvars>>

\* lines 128-130: basic_qos and basic_consume, inside the try block
RmqBasicConsume ==
    /\ cpc = "rmq_try"
    /\ \/ /\ consuming' = TRUE
          /\ cpc' = "rmq_loop"
          /\ conns' = [conns EXCEPT ![attempt] = "consuming"]
          /\ mid_batch' = NoteFetch
          /\ UNCHANGED <<attempt, batch, handles, del_idx, env_fault, conn_failures>>
       \/ /\ conns' = [conns EXCEPT ![attempt] = RmqAfterTry(TRUE)]
          /\ ListenerRaised("rmq_connect")
          /\ env_fault' = TRUE
          /\ conn_failures' = conn_failures + 1
          /\ UNCHANGED mid_batch
    /\ UNCHANGED <<queue_type, msgs, next_msg, shutdown_event, ack_calls,
                   nack_calls, delivered, cb_calls, cb_raised>>
    /\ UNCHANGED <<requeued, redeliveries, sqs_error, not_cvars>>

\* line 132: the while condition; lines 134-136 when the flag is set
RmqLoopCheck ==
    /\ cpc = "rmq_loop"
    /\ IF shutdown_event
       THEN /\ conns' = [conns EXCEPT ![attempt] = RmqAfterTry(FALSE)]
            /\ cpc' = "returned"
            /\ consuming' = FALSE
       ELSE /\ cpc' = "rmq_call_pde"
            /\ UNCHANGED <<conns, consuming>>
    /\ UNCHANGED <<queue_type, msgs, next_msg, shutdown_event, attempt, batch,
                   handles, del_idx, ack_calls, nack_calls, delivered, cb_calls,
                   cb_raised, env_fault, mid_batch>>
    /\ UNCHANGED <<conn_failures, requeued, redeliveries, sqs_error, not_cvars>>

\* line 133: connection.process_data_events(time_limit=1) is called
RmqCallPde ==
    /\ cpc = "rmq_call_pde"
    /\ cpc' = "rmq_pde"
    /\ mid_batch' = NoteFetch
    /\ UNCHANGED <<queue_type, msgs, next_msg, shutdown_event, attempt, conns,
                   consuming, batch, handles, del_idx, ack_calls, nack_calls,
                   delivered, cb_calls, cb_raised, env_fault>>
    /\ UNCHANGED <<conn_failures, requeued, redeliveries, sqs_error, not_cvars>>

\* on_message, lines 113-119 and 122-124: pika dispatches the next message
\* while process_data_events runs.  With the flag set the handler cancels the
\* consumer and returns; otherwise it parses the body and calls the callback,
\* or rejects a body that does not parse.
RmqOnMessage ==
    /\ cpc = "rmq_pde"
    /\ consuming
    /\ next_msg <= Len(msgs)
    /\ next_msg' = next_msg + 1
    /\ delivered' = delivered \cup {next_msg}
    /\ IF shutdown_event
       THEN /\ consuming' = FALSE
            /\ UNCHANGED <<cpc, attempt, batch, handles, del_idx, nack_calls,
                           cb_calls, env_fault, conns>>
       ELSE IF JsonLoads(msgs[next_msg])
       THEN /\ cpc' = "rmq_callback"
            /\ batch' = {next_msg}
            /\ cb_calls' = Append(cb_calls, <<next_msg>>)
            /\ UNCHANGED <<attempt, handles, del_idx, nack_calls, consuming,
                           env_fault, conns>>
       ELSE /\ nack_calls' = [nack_calls EXCEPT ![next_msg] = @ + 1]
            /\ UNCHANGED cb_calls
            /\ \/ UNCHANGED <<cpc, attempt, batch, handles, del_idx, consuming,
                              env_fault, conns>>
               \/ \* basic_nack raises: out of on_message and the loop
                  /\ conns' = [conns EXCEPT ![attempt] = RmqAfterTry(TRUE)]
                  /\ ListenerRaised("rmq_connect")
                  /\ env_fault' = TRUE
    /\ UNCHANGED <<queue_type, msgs, shutdown_event, ack_calls, cb_raised,
                   mid_batch>>
    /\ UNCHANGED <<conn_failures, requeued, redeliveries, sqs_error, not_cvars>>

\* basic_ack is called whatever the callback did
AckIssued_Always(raises) == TRUE

\* on_message, lines 119-120: basic_ack is the statement after callback([message])
\* inside the try block, reached only when the callback returned
AckIssued(raises) == ~raises

\* on_message, lines 119-124: the callback returns or raises; basic_ack after
\* a normal return, basic_nack(requeue=False) in the except clause, which also
\* catches a failure of basic_ack
RmqCallbackDone ==
    /\ cpc = "rmq_callback"
    /\ LET id == CHOOSE i \in batch : TRUE
           raises == CallbackRaises(batch)
       IN \E ack_ok \in BOOLEAN, nack_ok \in BOOLEAN :
            /\ raises => ack_ok
            /\ ack_ok /\ ~raises => nack_ok
            /\ cb_raised' = IF raises THEN cb_raised \cup batch ELSE cb_raised
            /\ ack_calls' = IF AckIssued(raises)
                            THEN [ack_calls EXCEPT ![id] = @ + 1]
                            ELSE ack_calls
            /\ nack_calls' = IF raises \/ ~ack_ok
                             THEN [nack_calls EXCEPT ![id] = @ + 1]
                             ELSE nack_calls
            /\ env_fault' = (env_fault \/ ~ack_ok \/ ~nack_ok)
            /\ IF nack_ok
               THEN /\ cpc' = "rmq_pde"
                    /\ batch' = {}
                    /\ UNCHANGED <<attempt, handles, del_idx, consuming, conns>>
               ELSE /\ conns' = [conns EXCEPT ![attempt] = RmqAfterTry(TRUE)]
                    /\ ListenerRaised("rmq_connect")
    /\ UNCHANGED <<queue_type, msgs, next_msg, shutdown_event, delivered,
                   cb_calls, mid_batch>>
    /\ UNCHANGED <<conn_failures, requeued, redeliveries, sqs_error, not_cvars>>

\* process_data_events returns (its time limit has passed)
RmqPdeReturn ==
    /\ cpc = "rmq_pde"
    /\ cpc' = "rmq_loop"
    /\ UNCHANGED <<queue_type, msgs, next_msg, shutdown_event, attempt, conns,
                   consuming, batch, handles, del_idx, ack_calls, nack_calls,
                   delivered, cb_calls, cb_raised, env_fault, mid_batch>>
    /\ UNCHANGED <<conn_failures, requeued, redeliveries, sqs_error, not_cvars>>

\* process_data_events raises (the connection is lost): finally, then tenacity
RmqPdeRaise ==
    /\ cpc = "rmq_pde"
    /\ conns' = [conns EXCEPT ![attempt] = RmqAfterTry(TRUE)]
    /\ ListenerRaised("rmq_connect")
    /\ env_fault' = TRUE
    /\ UNCHANGED <<queue_type, msgs, next_msg, shutdown_event, ack_calls,
                   nack_calls, delivered, cb_calls, cb_raised, mid_batch>>
    /\ UNCHANGED <<conn_failures, requeued, redeliveries, sqs_error, not_cvars>>

\* _start_sqs_listener, lines 147-148: boto3.client, get_sqs_queue_url
SqsClient ==
    /\ cpc = "sqs_client"
    /\ \/ /\ cpc' = "sqs_loop"
          /\ UNCHANGED <<attempt, batch, handles, del_idx, consuming, env_fault,
                          conn_failures>>
       \/ /\ ListenerRaised("sqs_client")
          /\ env_fault' = TRUE
          /\ conn_failures' = conn_failures + 1
    /\ UNCHANGED <<queue_type, msgs, next_msg, shutdown_event, conns, ack_calls,
                   nack_calls, delivered, cb_calls, cb_raised, mid_batch>>
    /\ UNCHANGED <<requeued, redeliveries, sqs_error, not_cvars>>

\* line 152: the while condition; line 184 when the flag is set
SqsLoopCheck ==
    /\ cpc = "sqs_loop"
    /\ cpc' = IF shutdown_event THEN "returned" ELSE "sqs_receive"
    /\ UNCHANGED <<queue_type, msgs, next_msg, shutdown_event, attempt, conns,
                   consuming, batch, handles, del_idx, ack_calls, nack_calls,
                   delivered, cb_calls, cb_raised, env_fault, mid_batch>>
    /\ UNCHANGED <<conn_failures, requeued, redeliveries, sqs_error, not_cvars>>

\* The ids among `ids` (taken in order) whose body parses: lines 166-172 append
\* the payload and the receipt handle of those, and only warn about the others.
RECURSIVE ParsedHandles(_)
ParsedHandles(ids) ==
    IF ids = <<>> THEN <<>>
    ELSE IF JsonLoads(msgs[Head(ids)])
         THEN <<Head(ids)>> \o ParsedHandles(Tail(ids))
         ELSE ParsedHandles(Tail(ids))

\* no except clause in the loop: every error leaves the function
SqsErrorCaught_None(err) == FALSE

\* What the except clause of line 180 does with an error of a boto call:
\* BotoCoreError and NoCredentialsError are caught (sleep, poll again); any other
\* exception (botocore's ClientError among them) leaves the function.
SqsErrorCaught(err) == err = "boto_core_error"

SqsErrors == {"boto_core_error", "other_error"}

\* lines 163-175, for the messages `got` of one receive_message response: the
\* parse loop, and the call of the callback when some body parsed
SqsBatchReceived(got) ==
    LET parsed == ParsedHandles(got)
    IN /\ delivered' = delivered \cup SeqToSet(got)
       /\ IF parsed = <<>>
          THEN \* `continue`, or `if payloads:` is false
               /\ cpc' = "sqs_loop"
               /\ UNCHANGED <<batch, handles, cb_calls>>
          ELSE /\ cpc' = "sqs_callback"
               /\ batch' = SeqToSet(got)
               /\ handles' = parsed
               /\ cb_calls' = Append(cb_calls, parsed)

\* lines 154-175: receive_message, the parse loop, and the call of the callback.
\* The response holds the next messages of the queue, or a message that was
\* received before, never deleted, and is visible again.
SqsReceive ==
    /\ cpc = "sqs_receive"
    /\ mid_batch' = NoteFetch
    /\ \/ \E k \in 0..BatchSizeCfg :
            /\ next_msg + k - 1 <= Len(msgs)
            /\ SqsBatchReceived([i \in 1..k |-> next_msg + i - 1])
            /\ next_msg' = next_msg + k
            /\ UNCHANGED <<attempt, del_idx, consuming, env_fault, requeued,
                           redeliveries, sqs_error>>
       \/ \E i \in requeued :
            /\ SqsBatchReceived(<<i>>)
            /\ requeued' = requeued \ {i}
            /\ redeliveries' = [redeliveries EXCEPT ![i] = @ + 1]
            /\ UNCHANGED <<next_msg, attempt, del_idx, consuming, env_fault,
                           sqs_error>>
       \/ \E err \in SqsErrors :
            /\ env_fault' = TRUE
            /\ sqs_error' = err
            /\ UNCHANGED <<next_msg, delivered, cb_calls, requeued, redeliveries>>
            /\ IF SqsErrorCaught(err)
               THEN /\ cpc' = "sqs_sleep"
                    /\ UNCHANGED <<attempt, batch, handles, del_idx, consuming>>
               ELSE ListenerRaised("sqs_client")
    /\ UNCHANGED <<queue_type, msgs, shutdown_event, conns, ack_calls,
                   nack_calls, cb_raised>>
    /\ UNCHANGED <<conn_failures, not_cvars>>

\* line 175: callback(payloads) returns, or raises.  The raise is no
\* BotoCoreError: it leaves the while loop and the function.
SqsCallbackDone ==
    /\ cpc = "sqs_callback"
    /\ IF CallbackRaises(SeqToSet(handles))
       THEN /\ cb_raised' = cb_raised \cup SeqToSet(handles)
            /\ ListenerRaised("sqs_client")
       ELSE /\ cpc' = "sqs_delete"
            /\ del_idx' = 1
            /\ UNCHANGED <<attempt, batch, handles, consuming, cb_raised>>
    /\ UNCHANGED <<queue_type, msgs, next_msg, shutdown_event, conns, ack_calls,
                   nack_calls, delivered, cb_calls, env_fault, mid_batch>>
    /\ UNCHANGED <<conn_failures, requeued, redeliveries, sqs_error, not_cvars>>

\* lines 176-177: delete_message for the next receipt handle
SqsDelete ==
    /\ cpc = "sqs_delete"
    /\ del_idx <= Len(handles)
    /\ ack_calls' = [ack_calls EXCEPT ![handles[del_idx]] = @ + 1]
    /\ \/ /\ del_idx' = del_idx + 1
          /\ UNCHANGED <<cpc, attempt, batch, handles, consuming, env_fault,
                          sqs_error>>
       \/ \E err \in SqsErrors :
            /\ env_fault' = TRUE
            /\ sqs_error' = err
            /\ IF SqsErrorCaught(err)
               THEN /\ cpc' = "sqs_sleep"
                    /\ batch' = {}
                    /\ handles' = <<>>
                    /\ del_idx' = 0
                    /\ UNCHANGED <<attempt, consuming>>
               ELSE ListenerRaised("sqs_client")
    /\ UNCHANGED <<queue_type, msgs, next_msg, shutdown_event, conns,
                   nack_calls, delivered, cb_calls, cb_raised, mid_batch>>
    /\ UNCHANGED <<conn_failures, requeued, redeliveries, not_cvars>>

\* line 178: the delete loop is over, back to the while condition
SqsBatchDone ==
    /\ cpc = "sqs_delete"
    /\ del_idx > Len(handles)
    /\ cpc' = "sqs_loop"
    /\ batch' = {}
    /\ handles' = <<>>
    /\ del_idx' = 0
    /\ UNCHANGED <<queue_type, msgs, next_msg, shutdown_event, attempt, conns,
                   consuming, ack_calls, nack_calls, delivered, cb_calls,
                   cb_raised, env_fault, mid_batch>>
    /\ UNCHANGED <<conn_failures, requeued, redeliveries, sqs_error, not_cvars>>

\* line 182: time.sleep(5) after a caught error, then the while condition
SqsSleep ==
    /\ cpc = "sqs_sleep"
    /\ cpc' = "sqs_loop"
    /\ UNCHANGED <<queue_type, msgs, next_msg, shutdown_event, attempt, conns,
                   consuming, batch, handles, del_idx, ack_calls, nack_calls,
                   delivered, cb_calls, cb_raised, env_fault, mid_batch>>
    /\ UNCHANGED <<conn_failures, requeued, redeliveries, sqs_error, not_cvars>>

\* The SQS service, after the visibility timeout of a message that was received
\* and for which no delete_message call was made: the message is visible in the
\* queue again.  (receive_message, lines 154-158, leaves the timeout to the
\* queue's setting.)
SqsVisibilityTimeout ==
    /\ queue_type = "sqs"
    /\ cpc \notin Done
    /\ \E i \in delivered \ (batch \cup requeued) :
            /\ ack_calls[i] = 0
            /\ redeliveries[i] < MaxRedeliveries
            /\ requeued' = requeued \cup {i}
    /\ UNCHANGED <<queue_type, msgs, next_msg, shutdown_event, cpc, attempt,
                   conns, consuming, batch, handles, del_idx, ack_calls,
                   nack_calls, delivered, cb_calls, cb_raised, env_fault,
                   mid_batch, redeliveries, sqs_error>>
    /\ UNCHANGED <<conn_failures, not_cvars>>

\* the steps of the listener (everything but the signal)
ListenerStep ==
    \/ ConsumeMessages
    \/ RmqConnect
    \/ RmqSetup
    \/ RmqBasicConsume
    \/ RmqLoopCheck
    \/ RmqCallPde
    \/ RmqOnMessage
    \/ RmqCallbackDone
    \/ RmqPdeReturn
    \/ RmqPdeRaise
    \/ SqsClient
    \/ SqsLoopCheck
    \/ SqsReceive
    \/ SqsCallbackDone
    \/ SqsDelete
    \/ SqsBatchDone
    \/ SqsSleep

ConsumerNext ==
    \/ GracefulShutdown
    \/ SqsVisibilityTimeout
    \/ ConsumeMessages
    \/ RmqConnect
    \/ RmqSetup
    \/ RmqBasicConsume
    \/ RmqLoopCheck
    \/ RmqCallPde
    \/ RmqOnMessage
    \/ RmqCallbackDone
    \/ RmqPdeReturn
    \/ RmqPdeRaise
    \/ SqsClient
    \/ SqsLoopCheck
    \/ SqsReceive
    \/ SqsCallbackDone
    \/ SqsDelete
    \/ SqsBatchDone
    \/ SqsSleep

\* The consumer of a run in which consume_messages is never called ("off"),
\* with no message at the broker.
ConsumerOff ==
    /\ msgs = <<>>
    /\ next_msg = 1
    /\ shutdown_event = FALSE
    /\ cpc = "off"
    /\ attempt = 1
    /\ conns = [a \in 1..ListenerAttempts |-> "none"]
    /\ consuming = FALSE
    /\ batch = {}
    /\ handles = <<>>
    /\ del_idx = 0
    /\ ack_calls = [i \in 1..MaxMsgs |-> 0]
    /\ nack_calls = [i \in 1..MaxMsgs |-> 0]
    /\ delivered = {}
    /\ cb_calls = <<>>
    /\ cb_raised = {}
    /\ env_fault = FALSE
    /\ mid_batch = [set |-> FALSE, ids |-> {}, fetched |-> FALSE]
    /\ conn_failures = 0
    /\ requeued = {}
    /\ redeliveries = [i \in 1..MaxMsgs |-> 0]
    /\ sqs_error = "none"

\* Its state under the specifications of the dispatcher and of the limiter.
ConsumerParked == queue_type = "rabbitmq" /\ ConsumerOff

-----------------------------------------------------------------------------
(* RateLimiter: app/utils/rate_limit.py                                    *)
(*                                                                         *)
(* Time is counted in ticks and read from a clock that never goes back.    *)
(* tokens holds self._tokens multiplied by time_window, so that the refill *)
(* elapsed * (max_requests / time_window) is the integer                   *)
(* elapsed * max_requests and one token is time_window units.  A sleep     *)
(* time is kept multiplied by max_requests for the same reason.            *)

Threads == 1..NumThreads

Min(a, b) == IF a <= b THEN a ELSE b

\* __init__ without the check of lines 79-80
CtorRaises_WindowUnchecked(mr, tw) == mr <= 0

\* __init__, lines 77-80: the arguments that make it raise ValueError
CtorRaises(mr, tw) == mr <= 0 \/ tw <= 0

\* one token, and the full bucket, in the unit of `tokens`
OneToken == time_window
FullBucket == max_requests * time_window

\* line 112 without the cap
Refilled_NoCap(tok, elapsed) == tok + elapsed * max_requests

\* lines 110-112: min(self._max_requests, self._tokens + elapsed * refill_rate)
Refilled(tok, elapsed) == Min(FullBucket, tok + elapsed * max_requests)

\* a sleep of the whole window whatever the deficit
SleepTime_WholeWindow(tok) == time_window * max_requests

\* lines 122-123: sleep_time = min((1 - tokens) / refill_rate, time_window),
\* multiplied by max_requests
SleepTime(tok) == Min(OneToken - tok, time_window * max_requests)

\* line 130 left out: the token count stays what the refill made it
TokensAfterSleep_Unset == tokens

\* line 130: self._tokens = 1.0 after the sleep
TokensAfterSleep == OneToken

\* threading.Lock: free for anyone to take
LockFree_Unguarded == TRUE

\* threading.Lock: `with self._lock` blocks until the lock is free
LockFree == lock = 0

InCS(t) == tpc[t] \in {"refill", "check", "sleep", "consume", "exit"}

LimiterStart ==
    /\ lim_state = "unbuilt"
    /\ max_requests = 0
    /\ time_window = 0
    /\ tokens = 0
    /\ last_check = 0
    /\ now \in 0..1
    /\ lock = 0
    /\ tpc = [t \in Threads |-> "idle"]
    /\ wake_at = [t \in Threads |-> 0]
    /\ calls_started = 0
    /\ pending = <<>>
    /\ seen = [t \in Threads |-> <<0, 0>>]
    /\ out_of_order = FALSE
    /\ log = <<>>
    /\ ctor_args = <<>>

\* RateLimiter.__init__, lines 77-86
Construct ==
    /\ lim_state = "unbuilt"
    /\ \E mr \in -1..MaxRequestsArg, tw \in -1..MaxWindowArg :
        /\ ctor_args' = <<mr, tw, now>>
        /\ IF CtorRaises(mr, tw)
           THEN /\ lim_state' = "rejected"
                /\ UNCHANGED <<max_requests, time_window, tokens, last_check>>
           ELSE /\ lim_state' = "ready"
                /\ max_requests' = mr
                /\ time_window' = tw
                /\ tokens' = mr * tw
                /\ last_check' = now
    /\ UNCHANGED <<now, lock, tpc, wake_at, calls_started, pending, seen,
                   out_of_order, log>>
    /\ UNCHANGED not_lvars

\* the clock advances; it is followed up to MaxTime and, past that, for as
\* long as a sleeping thread waits for the end of its sleep
Tick ==
    /\ lim_state = "ready"
    /\ \/ now < MaxTime
       \/ \E t \in Threads : tpc[t] = "sleep" /\ now * max_requests < wake_at[t]
    /\ now' = now + 1
    /\ UNCHANGED <<lim_state, max_requests, time_window, tokens, last_check,
                   lock, tpc, wake_at, calls_started, pending, seen, out_of_order, log>>
    /\ UNCHANGED <<ctor_args, not_lvars>>

\* acquire, lines 88-102: a thread calls acquire and comes to the with
\* statement
Call(t) ==
    /\ lim_state = "ready"
    /\ tpc[t] = "idle"
    /\ calls_started < MaxCalls
    /\ tpc' = [tpc EXCEPT ![t] = "waiting"]
    /\ calls_started' = calls_started + 1
    /\ UNCHANGED <<lim_state, max_requests, time_window, tokens, last_check, now,
                   lock, wake_at, pending, seen, out_of_order, log>>
    /\ UNCHANGED <<ctor_args, not_lvars>>

\* acquire, line 104: the thread takes the lock
LockAcquire(t) ==
    /\ tpc[t] = "waiting"
    /\ LockFree
    /\ lock' = t
    /\ tpc' = [tpc EXCEPT ![t] = "refill"]
    /\ pending' = Append(pending, t)
    /\ UNCHANGED <<lim_state, max_requests, time_window, tokens, last_check, now,
                   wake_at, calls_started, seen, out_of_order, log>>
    /\ UNCHANGED <<ctor_args, not_lvars>>

\* lines 105-112: read the clock, move last_check, replenish
Refill(t) ==
    /\ tpc[t] = "refill"
    /\ LET new == Refilled(tokens, now - last_check) IN
        /\ tokens' = new
        /\ seen' = [seen EXCEPT ![t] = <<new, now>>]
    /\ last_check' = now
    /\ tpc' = [tpc EXCEPT ![t] = "check"]
    /\ UNCHANGED <<lim_state, max_requests, time_window, now, lock, wake_at,
                   calls_started, pending, out_of_order, log>>
    /\ UNCHANGED <<ctor_args, not_lvars>>

\* lines 121-129: with less than one token, compute the sleep and go to sleep
Check(t) ==
    /\ tpc[t] = "check"
    /\ IF tokens < OneToken
       THEN /\ wake_at' = [wake_at EXCEPT ![t] = now * max_requests + SleepTime(tokens)]
            /\ tpc' = [tpc EXCEPT ![t] = "sleep"]
            /\ log' = Append(log, [at |-> last_check, slept |-> SleepTime(tokens)])
       ELSE /\ tpc' = [tpc EXCEPT ![t] = "consume"]
            /\ log' = Append(log, [at |-> last_check, slept |-> 0])
            /\ UNCHANGED wake_at
    /\ UNCHANGED <<lim_state, max_requests, time_window, tokens, last_check, now,
                   lock, calls_started, pending, seen, out_of_order>>
    /\ UNCHANGED <<ctor_args, not_lvars>>

\* lines 129-130: time.sleep returns once the sleep time has passed, and the
\* token count is set to 1.0
Wake(t) ==
    /\ tpc[t] = "sleep"
    /\ now * max_requests >= wake_at[t]
    /\ tokens' = TokensAfterSleep
    /\ seen' = [seen EXCEPT ![t] = <<TokensAfterSleep, seen[t][2]>>]
    /\ tpc' = [tpc EXCEPT ![t] = "consume"]
    /\ UNCHANGED <<lim_state, max_requests, time_window, last_check, now, lock,
                   wake_at, calls_started, pending, out_of_order, log>>
    /\ UNCHANGED <<ctor_args, not_lvars>>

\* line 133: self._tokens -= 1
Consume(t) ==
    /\ tpc[t] = "consume"
    /\ tokens' = tokens - OneToken
    /\ out_of_order' = (out_of_order \/ pending = <<>> \/ Head(pending) # t)
    /\ pending' = IF pending = <<>> THEN pending ELSE Tail(pending)
    /\ tpc' = [tpc EXCEPT ![t] = "exit"]
    /\ UNCHANGED <<lim_state, max_requests, time_window, last_check, now, lock,
                   wake_at, calls_started, seen, log>>
    /\ UNCHANGED <<ctor_args, not_lvars>>

\* lines 134-135 and the end of the with block: the lock is released
LockRelease(t) ==
    /\ tpc[t] = "exit"
    /\ lock' = 0
    /\ tpc' = [tpc EXCEPT ![t] = "idle"]
    /\ wake_at' = [wake_at EXCEPT ![t] = 0]
    /\ UNCHANGED <<lim_state, max_requests, time_window, tokens, last_check, now,
                   calls_started, pending, seen, out_of_order, log>>
    /\ UNCHANGED <<ctor_args, not_lvars>>

LimiterNext ==
    \/ Construct
    \/ Tick
    \/ \E t \in Threads : Call(t)
    \/ \E t \in Threads : LockAcquire(t)
    \/ \E t \in Threads : Refill(t)
    \/ \E t \in Threads : Check(t)
    \/ \E t \in Threads : Wake(t)
    \/ \E t \in Threads : Consume(t)
    \/ \E t \in Threads : LockRelease(t)

\* No limiter constructed: its state under the specifications of the other
\* components.
LimiterParked ==
    /\ lim_state = "unbuilt"
    /\ max_requests = 0
    /\ time_window = 0
    /\ tokens = 0
    /\ last_check = 0
    /\ now = 0
    /\ lock = 0
    /\ tpc = [t \in Threads |-> "idle"]
    /\ wake_at = [t \in Threads |-> 0]
    /\ calls_started = 0
    /\ pending = <<>>
    /\ seen = [t \in Threads |-> <<0, 0>>]
    /\ out_of_order = FALSE
    /\ log = <<>>
    /\ ctor_args = <<>>

-----------------------------------------------------------------------------
(* A message on its way through the broker: json.dumps in app/queue_sender.py, *)
(* json.loads in app/queue_handler.py                                       *)
(*                                                                         *)
(* A Python value is [t, v, items]: its type, its text, and its elements    *)
(* when it is a list or a tuple.  A message is a dict, a function from keys *)
(* [t, v] to values.  The JSON text is kept as its syntax tree, with the same *)
(* three fields.                                                            *)

PyAtom(t, v) == [t |-> t, v |-> v, items |-> <<>>]

PyList(items) == [t |-> "list", v |-> "", items |-> items]

PyTuple(items) == [t |-> "tuple", v |-> "", items |-> items]

PyNaN == PyAtom("float", "nan")

\* None, True, 1, 1.5, float("nan"), "a", and a datetime (which json.dumps
\* cannot serialise)
PyAtoms == {PyAtom("NoneType", "None"), PyAtom("bool", "True"), PyAtom("int", "1"),
            PyAtom("float", "1.5"), PyNaN, PyAtom("str", "a"),
            PyAtom("datetime", "2024-01-01")}

PyValues == PyAtoms \cup {PyList(q) : q \in SeqsUpTo(PyAtoms, MaxItems)}
                    \cup {PyTuple(q) : q \in SeqsUpTo(PyAtoms, MaxItems)}

\* the keys "k" and 1
PyKeys == {[t |-> "str", v |-> "k"], [t |-> "int", v |-> "1"]}

\* dict[str, Any] as Python checks it: any dict
Messages == UNION {[K -> PyValues] : K \in SUBSET PyKeys}

\* json.dumps raises TypeError for a value of a type it has no encoding for
Serialisable(x) ==
    /\ x.t # "datetime"
    /\ \A i \in 1..Len(x.items) : x.items[i].t # "datetime"

\* json.dumps of a value that is no container (allow_nan is left at True)
dump_atom(x) ==
    CASE x.t = "NoneType" -> PyAtom("null", "null")
      [] x.t = "bool" -> PyAtom("true", "true")
      [] x.t = "float" /\ x.v = "nan" -> PyAtom("NaN", "NaN")
      [] x.t \in {"int", "float"} -> PyAtom("number", x.v)
      [] OTHER -> PyAtom("string", x.v)

\* json.dumps of a value: a list and a tuple are both written as an array
dump_value(x) ==
    IF x.t \in {"list", "tuple"}
    THEN [t |-> "array", v |-> "",
          items |-> [i \in 1..Len(x.items) |-> dump_atom(x.items[i])]]
    ELSE dump_atom(x)

\* json.dumps of a dict key: a key that is not a str is written as the string
\* of its value
dump_key(k) == k.v

\* json.dumps(data, ensure_ascii=False) of a message: the JSON object, a
\* function from member names to JSON values
json_dumps(m) ==
    [name \in {dump_key(k) : k \in DOMAIN m} |->
        dump_value(m[CHOOSE k \in DOMAIN m : dump_key(k) = name])]

\* the number literals that json.loads reads as int
IntLiterals == {"1"}

\* json.loads of a JSON value that is no array
load_atom(j) ==
    CASE j.t = "null" -> PyAtom("NoneType", "None")
      [] j.t = "true" -> PyAtom("bool", "True")
      [] j.t = "NaN" -> PyNaN
      [] j.t = "number" -> PyAtom(IF j.v \in IntLiterals THEN "int" ELSE "float", j.v)
      [] OTHER -> PyAtom("str", j.v)

\* an array is read as a tuple
load_array_AsTuple(items) == PyTuple(items)

\* json.loads of an array: a list
load_array(items) == PyList(items)

load_value(j) ==
    IF j.t = "array"
    THEN load_array([i \in 1..Len(j.items) |-> load_atom(j.items[i])])
    ELSE load_atom(j)

\* json.loads(body) of a JSON object: a dict whose keys are str
json_loads(obj) ==
    [k \in {[t |-> "str", v |-> name] : name \in DOMAIN obj} |-> load_value(obj[k.v])]

\* x == y in Python for two values of which y was built by json.loads: equal
\* type and content, and no NaN inside (float("nan") equals nothing)
value_equal(x, y) ==
    /\ x = y
    /\ x # PyNaN
    /\ \A i \in 1..Len(x.items) : x.items[i] # PyNaN

\* a == b in Python for two dicts
dict_equal(a, b) ==
    /\ DOMAIN a = DOMAIN b
    /\ \A k \in DOMAIN a : value_equal(a[k], b[k])

RoundTripStart ==
    /\ rt_backend \in {"rabbitmq", "sqs"}
    /\ rt_msg \in Messages
    /\ rt_pc = "start"
    /\ rt_body = <<>>
    /\ rt_delivered = <<>>

\* _send_to_rabbitmq, lines 108-116, and _send_to_sqs, lines 170-174: the
\* message is serialised and handed to the broker, or json.dumps raises and
\* nothing is sent
RtPublish ==
    /\ rt_pc = "start"
    /\ IF \A k \in DOMAIN rt_msg : Serialisable(rt_msg[k])
       THEN /\ rt_body' = json_dumps(rt_msg)
            /\ rt_pc' = "published"
       ELSE /\ rt_pc' = "publish_raised"
            /\ UNCHANGED rt_body
    /\ UNCHANGED <<rt_backend, rt_msg, rt_delivered>>
    /\ UNCHANGED not_rvars

\* on_message, lines 118-119 (callback([message])), and _start_sqs_listener,
\* lines 166-175 (callback(payloads)): the body is parsed and the callback gets
\* a list holding the result
RtReceive ==
    /\ rt_pc = "published"
    /\ rt_delivered' = <<json_loads(rt_body)>>
    /\ rt_pc' = "received"
    /\ UNCHANGED <<rt_backend, rt_msg, rt_body>>
    /\ UNCHANGED not_rvars

RoundTripNext ==
    \/ RtPublish
    \/ RtReceive

\* No message under way: the state under the specifications of the other
\* components.
RoundTripParked ==
    /\ rt_backend = "rabbitmq"
    /\ rt_msg = <<>>
    /\ rt_pc = "off"
    /\ rt_body = <<>>
    /\ rt_delivered = <<>>

-----------------------------------------------------------------------------
(* retry_request: app/utils/retry_request.py                               *)

\* What one call of func does: it returns a value, raises an Exception, or
\* raises a BaseException that is no Exception (KeyboardInterrupt).
FuncReturns == {"a", "b"}
FuncRaises == {"ValueError", "KeyError"}
FuncAborts == {"KeyboardInterrupt"}
FuncOutcomes == FuncReturns \cup FuncRaises \cup FuncAborts

\* the exception object raised by call n of func
Exc(kind, n) == [kind |-> kind, n |-> n]

NoException == Exc("None", 0)

Outcome(how, what, n) == [how |-> how, what |-> what, n |-> n]

NoOutcome == Outcome("none", "none", 0)

TraceEv(e, n, what) == [e |-> e, n |-> n, what |-> what]

\* it sleeps after the last attempt too
MoreRetries_Always(n, m) == TRUE

\* line 96: `if attempt < max_retries`
MoreRetries(n, m) == n < m

RetryStart ==
    /\ rr_func_none \in BOOLEAN
    /\ rr_max \in 0..MaxRetriesArg
    /\ rr_delay \in 0..MaxDelayArg
    /\ rr_pc = "start"
    /\ rr_attempt = 0
    /\ rr_last_exception = NoException
    /\ rr_result = NoOutcome
    /\ rr_trace = <<>>

\* lines 78-83: the check of func, and entry into the loop
RetryEnter ==
    /\ rr_pc = "start"
    /\ IF rr_func_none
       THEN /\ rr_pc' = "raised"
            /\ rr_result' = Outcome("raised", "ValueError", 0)
            /\ UNCHANGED rr_attempt
       ELSE /\ rr_pc' = IF 1 <= rr_max THEN "loop" ELSE "after_loop"
            /\ rr_attempt' = 1
            /\ UNCHANGED rr_result
    /\ UNCHANGED <<rr_func_none, rr_max, rr_delay, rr_last_exception, rr_trace>>
    /\ UNCHANGED not_qvars

\* Where the for loop goes after the body of attempt n: the next attempt, or
\* the statements after the loop.
RetryLoopAdvance(n) ==
    IF n + 1 <= rr_max
    THEN rr_pc' = "loop" /\ rr_attempt' = n + 1
    ELSE rr_pc' = "after_loop" /\ rr_attempt' = n

\* lines 84-96: one attempt.  func() returns (and so does retry_request),
\* raises an Exception (stored; then the sleep, or the next iteration), or
\* raises something that `except Exception` does not catch.
RetryAttempt ==
    /\ rr_pc = "loop"
    /\ \E out \in FuncOutcomes :
        /\ rr_trace' = Append(rr_trace, TraceEv("call", rr_attempt, out))
        /\ IF out \in FuncReturns
           THEN /\ rr_pc' = "returned"
                /\ rr_result' = Outcome("returned", out, rr_attempt)
                /\ UNCHANGED <<rr_attempt, rr_last_exception>>
           ELSE IF out \in FuncAborts
           THEN /\ rr_pc' = "raised"
                /\ rr_result' = Outcome("raised", out, rr_attempt)
                /\ UNCHANGED <<rr_attempt, rr_last_exception>>
           ELSE /\ rr_last_exception' = Exc(out, rr_attempt)
                /\ UNCHANGED rr_result
                /\ IF MoreRetries(rr_attempt, rr_max)
                   THEN rr_pc' = "sleep" /\ UNCHANGED rr_attempt
                   ELSE RetryLoopAdvance(rr_attempt)
    /\ UNCHANGED <<rr_func_none, rr_max, rr_delay>>
    /\ UNCHANGED not_qvars

\* line 97: time.sleep(delay_seconds), then the next iteration
RetrySleep ==
    /\ rr_pc = "sleep"
    /\ rr_trace' = Append(rr_trace, TraceEv("sleep", rr_attempt, "none"))
    /\ RetryLoopAdvance(rr_attempt)
    /\ UNCHANGED <<rr_func_none, rr_max, rr_delay, rr_last_exception, rr_result>>
    /\ UNCHANGED not_qvars

\* lines 99-103: after the loop
RetryGiveUp ==
    /\ rr_pc = "after_loop"
    /\ rr_pc' = "raised"
    /\ rr_result' = IF rr_last_exception # NoException
                     THEN Outcome("raised", rr_last_exception.kind,
                                  rr_last_exception.n)
                     ELSE Outcome("raised", "RuntimeError", 0)
    /\ UNCHANGED <<rr_func_none, rr_max, rr_delay, rr_attempt, rr_last_exception,
                   rr_trace>>
    /\ UNCHANGED not_qvars

RetryNext ==
    \/ RetryEnter
    \/ RetryAttempt
    \/ RetrySleep
    \/ RetryGiveUp

\* retry_request is not called: the state under the specifications of the
\* other components
RetryParked ==
    /\ rr_func_none = FALSE
    /\ rr_max = 0
    /\ rr_delay = 0
    /\ rr_pc = "off"
    /\ rr_attempt = 0
    /\ rr_last_exception = NoException
    /\ rr_result = NoOutcome
    /\ rr_trace = <<>>

-----------------------------------------------------------------------------
(* Specifications *)

\* the components without a specification of their own here keep this state
OthersParked == RoundTripParked /\ RetryParked

DispatcherInit == DispatcherStart /\ ConsumerParked /\ LimiterParked /\ OthersParked

SpecDispatcher == DispatcherInit /\ [][DispatcherNext]_vars

ConsumerInit == ConsumerStart /\ DispatcherParked /\ LimiterParked /\ OthersParked

SpecConsumer == ConsumerInit /\ [][ConsumerNext]_vars

\* The queue sink alone: OUTPUT_MODES names no other mode, paper trading is
\* off, and the backend selector is any string.
QueueSinkInit ==
    /\ DispatcherStart
    /\ ~paper_enabled
    /\ SeqToSet(output_modes) \subseteq {"queue"}
    /\ queue_type \in QueueTypes
    /\ ConsumerOff
    /\ LimiterParked
    /\ OthersParked

QueueSinkNext ==
    \/ SendCall
    \/ SendLoop
    \/ SendLoopEnd
    \/ OutputToQueue
    \/ SendToBroker

SpecQueueSink == QueueSinkInit /\ [][QueueSinkNext]_vars

\* A process that consumes, or a process that publishes through the queue sink,
\* under any backend selector.
BackendInit == QueueSinkInit \/ ConsumerInit

BackendNext == QueueSinkNext \/ ConsumerNext

SpecBackend == BackendInit /\ [][BackendNext]_vars

\* main, line 80: consume_messages(output_handler.send).  The service is looked
\* at from its two sides: a run of send with any configuration and any batch,
\* and a run of the listener, whose callback is send.
MainInit == DispatcherInit \/ ConsumerInit

MainNext == DispatcherNext \/ ConsumerNext

SpecMain == MainInit /\ [][MainNext]_vars

\* The listener is the one thread of the process and runs whenever it can: a
\* step of it that stays possible is eventually taken.
FairSpecConsumer == SpecConsumer /\ WF_vars(ListenerStep)

LimiterInit == LimiterStart /\ DispatcherParked /\ ConsumerParked /\ OthersParked

RoundTripInit ==
    /\ RoundTripStart
    /\ DispatcherParked /\ ConsumerParked /\ LimiterParked /\ RetryParked

RetryInit ==
    /\ RetryStart
    /\ DispatcherParked /\ ConsumerParked /\ LimiterParked /\ RoundTripParked

SpecRetry == RetryInit /\ [][RetryNext]_vars

SpecRoundTrip == RoundTripInit /\ [][RoundTripNext]_vars

SpecLimiter == LimiterInit /\ [][LimiterNext]_vars

\* A thread inside acquire runs whenever it can, the clock goes on, and the
\* lock is fair: a thread that finds it free again and again gets it.
FairSpecLimiter ==
    /\ SpecLimiter
    /\ WF_vars(Tick)
    /\ \A t \in Threads :
        /\ WF_vars(Refill(t) \/ Check(t) \/ Wake(t) \/ Consume(t) \/ LockRelease(t))
        /\ SF_vars(LockAcquire(t))



-----------------------------------------------------------------------------
(* Claims about OutputDispatcher.send *)

\* the recognised modes of a configured list, in order
Recognised(modes) == SelectSeq(modes, LAMBDA m : get_dispatch_method(m) # "none")

\* C1: a send whose batch fails shape validation (not a list, an item that is
\* not a dict, a dict without "text") invokes no sink handler, whatever the mode
\* list and the paper trading switch, and the call reports failure.
C1_InvalidBatchRejected ==
    (dpc # "idle" /\ ~valid) =>
        /\ Len(Calls) = 0
        /\ dpc = "done" => send_status = "error_logged"

\* C2: with paper trading off and a valid batch, a failure inside one sink
\* handler never keeps send from invoking the handlers of the modes configured
\* after it: when send is over, the handler of every recognised mode of the
\* list has been invoked.
C2_SinkFailureIsolated ==
    (dpc = "done" /\ ~paper_enabled /\ valid) =>
        CallModes = Recognised(output_modes)

-----------------------------------------------------------------------------
(* Claims about the listeners *)

RECURSIVE SumUpTo(_, _)
SumUpTo(f, n) == IF n = 0 THEN 0 ELSE f[n] + SumUpTo(f, n - 1)

\* ids that have been passed to the callback
HandedToCallback == UNION {SeqToSet(cb_calls[k]) : k \in 1..Len(cb_calls)}

Count(kind) == Cardinality({i \in MsgIds : msgs[i] = kind})

\* C3: when the callback raises for a message or a batch (and no broker call
\* fails), the listener is neither terminated nor restarted: it is still in
\* its first run and has not raised out of consume_messages.
C3_CallbackFailureContained ==
    (cb_raised # {} /\ ~env_fault) => (attempt = 1 /\ cpc # "raised")

\* C4: for every message handed to the callback, once its processing is over
\* (and no broker call failed): acknowledged once and not rejected if the
\* callback returned normally, rejected once and not acknowledged if it raised.
C4_AckIffCallbackReturned ==
    ~env_fault =>
        \A i \in HandedToCallback \ batch :
            IF i \in cb_raised
            THEN nack_calls[i] = 1 /\ ack_calls[i] = 0
            ELSE ack_calls[i] = 1 /\ nack_calls[i] = 0

\* C5: one malformed message and N well-formed ones whose callback succeeds,
\* all received and processed (no broker call failed, no shutdown): exactly N
\* acknowledgments and exactly 1 rejection, for both brokers.
C5_OneMalformedOneRejection ==
    ( /\ cpc \in {"rmq_loop", "sqs_loop"}
      /\ next_msg > Len(msgs) /\ batch = {}
      /\ ~env_fault /\ ~shutdown_event
      /\ Count("malformed") = 1 /\ Count("cb_raises") = 0 ) =>
        /\ SumUpTo(ack_calls, Len(msgs)) = Count("ok")
        /\ SumUpTo(nack_calls, Len(msgs)) = 1

\* C6: every message delivered to the consumer whose processing is over has had
\* its handle used by exactly one call, an acknowledge or a reject, on every
\* path.
C6_HandleConsumedOnce ==
    \A i \in delivered \ batch : ack_calls[i] + nack_calls[i] = 1

\* C7: when the shutdown flag was set in the middle of a batch (and no broker
\* call failed), every message of that batch has been acknowledged or rejected
\* by the time the listener exits, and no fetch was issued after the flag.
C7_MidBatchShutdownDrains ==
    (mid_batch.set /\ cpc \in Done /\ ~env_fault) =>
        /\ \A i \in mid_batch.ids : ack_calls[i] + nack_calls[i] >= 1
        /\ ~mid_batch.fetched

\* Every attempt of the RabbitMQ listener that has left its try block has closed
\* the connection it opened.
ConnectionClosedAfterLoop ==
    \A a \in 1..ListenerAttempts :
        (a < attempt \/ cpc \in Done) => conns[a] # "consuming"

-----------------------------------------------------------------------------
(* Claims about RateLimiter *)

\* C9: for every limiter the constructor accepts and every interleaving of
\* acquire calls, 0 <= tokens <= maxRequests in every state, the one between
\* a blocked acquire setting tokens to 1 and its decrement included.
C9_TokensWithinBounds ==
    lim_state = "ready" => (0 <= tokens /\ tokens <= FullBucket)

\* C9 witness: a blocked acquire has slept and set tokens to 1, has not
\* decremented yet, and 1 is the whole capacity.
C9_Witness ==
    /\ lim_state = "ready" /\ max_requests = 1
    /\ \E t \in Threads :
        tpc[t] = "consume" /\ wake_at[t] > 0 /\ tokens = OneToken

\* C10: the refill / check / sleep / decrement sequence of one acquire runs
\* with no step of another acquire interleaved: at most one thread is inside
\* it, that thread holds the lock, tokens and last_check are what that thread
\* left (no update of another one in between, none lost), and tokens are
\* consumed in the order the lock was taken.
C10_AcquireIsOneCriticalSection ==
    /\ \A t1, t2 \in Threads : (InCS(t1) /\ InCS(t2)) => t1 = t2
    /\ \A t \in Threads : InCS(t) => lock = t
    /\ \A t \in Threads :
        tpc[t] \in {"check", "sleep", "consume"} =>
            (tokens = seen[t][1] /\ last_check = seen[t][2])
    /\ ~out_of_order
    /\ Len(pending) <= 1

\* C10 witness: one thread sleeps inside acquire, holding the lock, while
\* another thread has still to make its call.
C10_Witness ==
    \E t1, t2 \in Threads :
        /\ t1 # t2
        /\ tpc[t1] = "sleep" /\ lock = t1
        /\ tpc[t2] = "idle" /\ calls_started < MaxCalls
        /\ Len(pending) = 1

\* C11: under fair scheduling every acquire call returns, whatever the number
\* of callers; a call takes its token only when at least one is there, and
\* between its call and its return it lowers the count by exactly one token.
C11_AcquireReturnsAfterOneToken ==
    /\ \A t \in Threads : (tpc[t] = "waiting") ~> (tpc[t] = "idle")
    /\ [](\A t \in Threads : tpc[t] = "consume" => tokens >= OneToken)
    /\ [][\A t \in Threads :
            /\ (tpc[t] # "exit" /\ tpc'[t] = "exit") =>
                   (tpc[t] = "consume" /\ tokens' = tokens - OneToken)
            /\ (tpc[t] # "idle" /\ tpc'[t] = "idle") =>
                   (tpc[t] = "exit" /\ tokens' = tokens)]_vars

\* C11 witness: a call that had to sleep has taken its token and is about to
\* return, while the call of another thread waits for the lock.
C11_Witness ==
    \E t1, t2 \in Threads :
        /\ tpc[t1] = "exit" /\ wake_at[t1] > 0
        /\ tpc[t2] = "waiting"

\* C12 as stated: the first N calls, made within a span shorter than W, do not
\* sleep; call N+1 made at the clock reading of call N sleeps W/N; no sleep
\* exceeds W.  (log[k].slept is the sleep multiplied by max_requests.)
C12_BurstThenSleepsOneRefill ==
    lim_state = "ready" =>
        /\ \A k \in 1..Len(log) :
            (k <= max_requests /\ log[k].at - log[1].at < time_window)
                => log[k].slept = 0
        /\ ( /\ Len(log) >= max_requests + 1
             /\ log[max_requests].at - log[1].at < time_window
             /\ log[max_requests + 1].at = log[max_requests].at )
                => log[max_requests + 1].slept = time_window
        /\ \A k \in 1..Len(log) : log[k].slept <= time_window * max_requests

\* C12 amended: the first N calls never sleep; call N+1 sleeps exactly W/N
\* when the clock has not advanced since the first call, and otherwise less,
\* by the refill credited meanwhile; no call sleeps longer than W/N.
C12_BurstSleepAtMostOneRefill ==
    lim_state = "ready" =>
        /\ \A k \in 1..Len(log) : k <= max_requests => log[k].slept = 0
        /\ ( /\ Len(log) >= max_requests + 1
             /\ log[max_requests + 1].at = log[1].at )
                => log[max_requests + 1].slept = time_window
        /\ \A k \in 1..Len(log) : log[k].slept <= time_window

\* C12 witness: a limiter of 2 requests, two calls that did not sleep and a
\* third that slept W/N, all of them returned.
C12_Witness ==
    /\ lim_state = "ready" /\ max_requests = 2
    /\ Len(log) = 3 /\ log[3].slept = time_window
    /\ \A t \in Threads : tpc[t] = "idle"

\* C13: __init__ raises exactly when max_requests <= 0 or time_window <= 0,
\* and then no limiter exists to call acquire on; otherwise the limiter holds
\* the two arguments and a full bucket.
C13_ConstructionValidated ==
    /\ lim_state = "unbuilt" <=> ctor_args = <<>>
    /\ lim_state = "rejected" =>
        /\ (ctor_args[1] <= 0 \/ ctor_args[2] <= 0)
        /\ calls_started = 0 /\ \A t \in Threads : tpc[t] = "idle"
    /\ lim_state = "ready" =>
        /\ ctor_args[1] > 0 /\ ctor_args[2] > 0
        /\ max_requests = ctor_args[1] /\ time_window = ctor_args[2]
        /\ (log = <<>> /\ \A t \in Threads : tpc[t] \in {"idle", "waiting", "refill"})
               => tokens = max_requests * time_window

\* C13 witness: a positive max_requests with a non-positive time_window was
\* rejected.
C13_Witness ==
    lim_state = "rejected" /\ ctor_args[1] > 0 /\ ctor_args[2] <= 0

-----------------------------------------------------------------------------
(* Claims about the connection budget and the lifecycle of the consumer *)

\* the lifecycle state of the consumer: 0 Disconnected, 1 Connecting,
\* 2 Consuming, 3 Draining (the flag is set, the listener still runs),
\* 4 Stopped
Phase ==
    CASE cpc = "start" -> 0
      [] cpc \in {"rmq_connect", "rmq_setup", "rmq_try", "sqs_client"} -> 1
      [] cpc \in Done -> 4
      [] shutdown_event -> 3
      [] OTHER -> 2

\* C18: the listener connects at most 5 times; consume_messages ends with the
\* fatal error once 5 attempts to connect have failed, and only then: a failure
\* of another kind leaves the number of attempts that remain as it was.
C18_ConnectBudget ==
    queue_type \in {"rabbitmq", "sqs"} =>
        /\ attempt <= ListenerAttempts
        /\ conn_failures = ListenerAttempts => cpc = "raised"
        /\ cpc = "raised" => conn_failures = ListenerAttempts
        /\ cpc # "raised" => attempt = conn_failures + 1

\* C19: the lifecycle state never moves backwards, and after Stopped nothing
\* is received or handed to the callback any more.
C19_LifecycleForwardOnly ==
    [][/\ Phase' >= Phase
       /\ Phase = 4 => (delivered' = delivered /\ cb_calls' = cb_calls)]_vars

-----------------------------------------------------------------------------
(* Claims about the paper trading branch, the mode loop and the sinks *)

\* the paper trade mode the running send has read (line 55), "none" before
PaperTarget ==
    LET P == SelectSeq(events, LAMBDA e : e[1] = "paper")
    IN IF P = <<>> THEN "none" ELSE P[1][2]

\* the modes send has warned about (line 69), in order
Warned ==
    LET W == SelectSeq(events, LAMBDA e : e[1] = "warn")
    IN [i \in 1..Len(W) |-> W[i][2]]

\* the unrecognised modes of a configured list, in order
Unrecognised(modes) == SelectSeq(modes, LAMBDA m : get_dispatch_method(m) = "none")

IsPrefix(p, q) == Len(p) <= Len(q) /\ \A i \in 1..Len(p) : p[i] = q[i]

\* the last handler send has invoked is the queue handler
QueueCallLast == Len(Calls) >= 1 /\ Calls[Len(Calls)][2] = "queue"

\* the successes recorded (line 126) since the last handler was invoked
OksOfLastCall ==
    LET at == CHOOSE i \in 1..Len(events) :
                  /\ events[i][1] = "call"
                  /\ \A j \in (i + 1)..Len(events) : events[j][1] # "call"
        rest == SubSeq(events, at, Len(events))
    IN Len(SelectSeq(rest, LAMBDA e : e = Ev("ok", "queue")))

C15_EachModeOnceInOrder ==
    (~paper_enabled /\ valid) =>
        /\ IsPrefix(CallModes, Recognised(output_modes))
        /\ dpc = "done" => Len(CallModes) = Len(Recognised(output_modes))

\* C16: with paper trading off, a valid batch and an unrecognised mode in the
\* list, send ends having warned about each unrecognised mode and having
\* invoked the handlers of exactly the recognised ones.
C16_UnknownModeSkipped ==
    (~paper_enabled /\ valid /\ dpc = "done" /\ Unrecognised(output_modes) # <<>>) =>
        /\ Warned = Unrecognised(output_modes)
        /\ CallModes = Recognised(output_modes)

\* C17 as stated, for a batch of one message: no more than 3 attempts; a
\* broker publish that fails twice and then succeeds makes 3 invocation
\* attempts and one success; after 3 failed publishes there is no 4th and no
\* success.
C17_PublishRetriedThreeTimes ==
    (QueueCallLast /\ IsList(data) /\ Len(data.items) = 1) =>
        /\ q_attempts <= QueueSinkAttempts
        /\ q_pub_fail + q_pub_ok[1] <= QueueSinkAttempts
        /\ (q_pub_fail = 2 /\ q_pub_ok[1] = 1) =>
               (q_attempts = QueueSinkAttempts /\ OksOfLastCall = 1)
        /\ q_pub_fail >= QueueSinkAttempts => OksOfLastCall = 0

\* C17 amended: _output_to_queue is attempted at most 3 times per send; when
\* attempts raise and a later one returns, the attempts are the failed ones
\* plus one and one success is recorded; when 3 attempts have raised there is
\* no 4th, no success is recorded and send ends with the error.  (An attempt
\* raises once the send of a message has failed SendAttempts times.)
C17_SinkRetriedThreeTimes ==
    QueueCallLast =>
        /\ q_attempts <= QueueSinkAttempts
        /\ OksOfLastCall <= 1
        /\ OksOfLastCall = 1 => (q_attempts = q_fails + 1 /\ cur = "none")
        /\ q_fails = QueueSinkAttempts =>
               /\ OksOfLastCall = 0
               /\ q_attempts = QueueSinkAttempts
               /\ dpc = "done" /\ send_status = "error_logged"

\* C17 witness: two attempts of the queue handler raised, the third returned.
C17_Witness ==
    /\ QueueCallLast /\ valid /\ Len(data.items) >= 1
    /\ q_fails = 2 /\ q_attempts = QueueSinkAttempts
    /\ OksOfLastCall = 1 /\ cur = "none"

\* C20: when the insert of one record of a valid batch raised, the database
\* handler ends with the inserts of all the other records executed and the
\* transaction committed.
C20_RecordFailureSkipped ==
    (valid /\ db_failed_at # 0 /\ cur # "database") =>
        /\ db_state = "committed"
        /\ SeqToSet(db_done) = (1..Len(data.items)) \ {db_failed_at}

-----------------------------------------------------------------------------
(* Claims about dropped messages, backends and acknowledgment order *)

\* C21: in the SQS listener a received message whose body does not parse is
\* never passed to the callback and never comes back to this consumer after it
\* was dropped, and the messages of the same response whose body parses are the
\* batch the callback is given.
C21_MalformedDroppedForGood ==
    queue_type = "sqs" =>
        /\ \A i \in MsgIds :
              msgs[i] = "malformed" =>
                  i \notin HandedToCallback /\ redeliveries[i] = 0
        /\ cpc = "sqs_callback" =>
              SeqToSet(handles) = {i \in batch : msgs[i] # "malformed"}

\* C22: with a backend selector that is neither "rabbitmq" nor "sqs",
\* consume_messages ends by raising before any connection is opened, any
\* message received or the callback invoked, and the queue sink makes no
\* publish attempt on any broker.
C22_InvalidBackendRefused ==
    queue_type \notin {"rabbitmq", "sqs"} =>
        /\ cpc \in {"off", "start", "raised"}
        /\ attempt = 1 /\ conn_failures = 0
        /\ \A a \in 1..ListenerAttempts : conns[a] = "none"
        /\ delivered = {} /\ cb_calls = <<>>
        /\ q_msg = 0 /\ q_pub_ok = NoPublish /\ q_pub_fail = 0

\* C22 witness: under such a selector the queue handler was given a batch of
\* messages and has returned, and send is over.
C22_Witness ==
    /\ queue_type \notin {"rabbitmq", "sqs"}
    /\ dpc = "done" /\ IsList(data) /\ Len(data.items) >= 1
    /\ Len(Calls) >= 1 /\ q_attempts >= 1

\* the values json.dumps and json.loads can both represent: None, bool, int,
\* finite float, str, and lists of these (no tuple, no NaN)
JsonValue(x) ==
    /\ x.t \in {"NoneType", "bool", "int", "float", "str", "list"}
    /\ x # PyNaN
    /\ \A i \in 1..Len(x.items) :
          x.items[i].t \in {"NoneType", "bool", "int", "float", "str"}
          /\ x.items[i] # PyNaN

\* a message whose keys are str and whose values are such values
JsonMessage(m) ==
    \A k \in DOMAIN m : k.t = "str" /\ JsonValue(m[k])

-----------------------------------------------------------------------------
(* Claims about retry_request *)

\* the calls of func made so far, and the sleeps
FuncCalls == SelectSeq(rr_trace, LAMBDA ev : ev.e = "call")

Sleeps == SelectSeq(rr_trace, LAMBDA ev : ev.e = "sleep")

\* C24: retry_request(func, max_retries=M) calls func at most M times; it
\* returns the result of the first call that does not raise, with no call
\* after it; when all M calls have raised it raises the exception of the last
\* call; and it sleeps only between two attempts, never after the last.
C24_RetryRequestContract ==
    LET calls == FuncCalls
        n == Len(calls)
    IN /\ n <= rr_max
       /\ \A i \in 1..n : calls[i].n = i
       /\ \A i \in 1..(n - 1) : calls[i].what \in FuncRaises
       /\ rr_pc = "returned" =>
             /\ n >= 1 /\ calls[n].what \in FuncReturns
             /\ rr_result = Outcome("returned", calls[n].what, n)
             /\ rr_trace[Len(rr_trace)] = calls[n]
       /\ (rr_pc \in {"returned", "raised"} /\ n = rr_max /\ n >= 1
            /\ calls[n].what \in FuncRaises) =>
             /\ rr_pc = "raised"
             /\ rr_result = Outcome("raised", calls[n].what, n)
       /\ Len(Sleeps) <= n
       /\ Len(Sleeps) < rr_max \/ rr_max = 0
       /\ \A i \in 1..Len(rr_trace) :
             rr_trace[i].e = "sleep" =>
                 /\ i > 1 /\ rr_trace[i - 1].e = "call"
                 /\ rr_trace[i - 1].what \in FuncRaises
                 /\ rr_trace[i].n < rr_max
       /\ rr_pc \in {"returned", "raised"} /\ rr_trace # <<>> =>
             rr_trace[Len(rr_trace)].e = "call"

\* C24 witness: three attempts allowed, all three raised, two sleeps, and the
\* call ended with the exception of the third.
C24_Witness ==
    /\ rr_pc = "raised" /\ rr_max = 3
    /\ Len(FuncCalls) = 3 /\ Len(Sleeps) = 2
    /\ rr_result.n = 3 /\ rr_result.what \in FuncRaises
    /\ FuncCalls[1].what # FuncCalls[3].what

-----------------------------------------------------------------------------
(* Claims about the admission rate of RateLimiter *)

\* the acquire calls that have returned
Returned == calls_started - Cardinality({t \in Threads : tpc[t] # "idle"})

\* C25: for a RateLimiter(N, W) the number of acquire calls that have returned
\* by time t after construction is at most N + t * N / W (both sides are
\* multiplied by W here).
C25_AdmissionBound ==
    lim_state = "ready" =>
        Returned * time_window <= FullBucket + (now - ctor_args[3]) * max_requests

-----------------------------------------------------------------------------
(* Claims about the service as main wires it *)

\* send has returned to its caller without an exception
SendReturned == dpc = "done" /\ send_status \in {"ok", "error_logged"}

\* C26: send never raises to its caller, whatever failed inside it; so with
\* send as the callback (a callback that raises for no message), and as long
\* as no broker call fails, every message whose body was decoded and handed
\* to the callback is acknowledged once its processing is over.
C26_SendNeverRaises ==
    /\ dpc = "done" => SendReturned
    /\ (Count("cb_raises") = 0 /\ ~env_fault) =>
          /\ cb_raised = {}
          /\ \A i \in HandedToCallback \ batch :
                ack_calls[i] >= 1 /\ nack_calls[i] = 0

\* C26 witness: the queue handler, the last of the configured modes, gave up
\* after its three attempts, no handler recorded a success, and send has
\* returned.
C26_Witness ==
    /\ SendReturned /\ send_status = "error_logged"
    /\ ~paper_enabled /\ valid /\ Len(data.items) >= 1
    /\ Len(output_modes) = 2 /\ Len(Calls) = 2
    /\ q_fails = QueueSinkAttempts
    /\ \A i \in 1..Len(events) : events[i][1] # "ok"

-----------------------------------------------------------------------------
(* Claims about the order of processing and acknowledgment *)

\* the batch most recently passed to the callback
LastBatch == IF cb_calls = <<>> THEN <<>> ELSE cb_calls[Len(cb_calls)]

\* C27: every step that issues basic_ack or delete_message for a message is
\* taken after the callback was given that message in its latest batch and
\* returned normally for the whole batch; and the step in which the SQS
\* callback raises issues no delete_message and drops the receipt handles of
\* the batch.
C27_AckFollowsProcessing ==
    [][ /\ \A i \in 1..MaxMsgs :
              ack_calls'[i] > ack_calls[i] =>
                  /\ cpc \in {"rmq_callback", "sqs_delete"}
                  /\ i \in batch
                  /\ i \in SeqToSet(LastBatch)
                  /\ ~CallbackRaises(SeqToSet(LastBatch))
                  /\ cpc = "sqs_delete" => handles = LastBatch
        /\ (queue_type = "sqs" /\ cb_raised' # cb_raised) =>
              /\ ack_calls' = ack_calls
              /\ handles' = <<>> ]_vars

\* C27 witness: the SQS callback returned for a batch of two messages and both
\* have been deleted.
C27_Witness ==
    /\ queue_type = "sqs"
    /\ cb_calls = << <<1, 2>> >>
    /\ ack_calls[1] = 1 /\ ack_calls[2] = 1
    /\ cpc = "sqs_loop"

-----------------------------------------------------------------------------
(* Claims about the queue sink *)

\* C28: during one call of the queue handler with a valid batch, every message
\* of the batch is published successfully at most once, whatever fails and is
\* retried.
C28_PublishedAtMostOnce ==
    (QueueCallLast /\ valid) =>
        \A i \in 1..Len(data.items) : q_pub_ok[i] <= 1

\* C29: when the queue handler has recorded a success for a valid batch, every
\* message of that batch was handed to a broker send call that returned.
C29_SuccessMeansAllSent ==
    (QueueCallLast /\ valid /\ OksOfLastCall >= 1) =>
        \A i \in 1..Len(data.items) : q_pub_ok[i] >= 1

-----------------------------------------------------------------------------
(* Claims about transient SQS errors *)

\* C30: a BotoCoreError (NoCredentialsError is one) raised by receive_message
\* or delete_message does not end the run of the SQS listener and uses up no
\* attempt: the listener goes to its sleep, and from the sleep it polls again,
\* or returns because the shutdown flag was set in between.
C30_TransientErrorRetried ==
    /\ [][
          /\ ( /\ cpc \in {"sqs_receive", "sqs_delete"}
               /\ cpc' \notin {cpc, "sqs_callback", "sqs_loop"}
               /\ sqs_error' = "boto_core_error" ) =>
                 /\ cpc' = "sqs_sleep"
                 /\ attempt' = attempt /\ conn_failures' = conn_failures
          /\ cpc = "sqs_sleep" => cpc' \in {"sqs_sleep", "sqs_loop"}
          /\ (cpc = "sqs_loop" /\ ~shutdown_event) =>
                 cpc' \in {"sqs_loop", "sqs_receive"}
       ]_vars
    /\ (cpc = "sqs_sleep") ~> (cpc \in {"sqs_receive", "returned"})

\* C30 witness: the SQS listener, still in its first run, polls again after
\* delete_message raised a BotoCoreError.
C30_Witness ==
    /\ queue_type = "sqs" /\ cpc = "sqs_receive"
    /\ sqs_error = "boto_core_error"
    /\ attempt = 1 /\ ~shutdown_event
    /\ \E i \in MsgIds : ack_calls[i] = 1

====
